---- MODULE Spec2Model ----
(***************************************************************************)
(* Model of examples/sierpinski-triangle.py: the recursive function        *)
(* triangle(shape, a, b, c, fill, triangle_count) and the host script      *)
(* that builds the start triangle and calls it once.                       *)
(*                                                                         *)
(* Coordinates are Python floats.  They are modelled as a binary floating  *)
(* point format with Prec significant bits, round-to-nearest-even and      *)
(* gradual underflow below 2^-FracBits: a number is the integer count of   *)
(* units of 2^-FracBits it holds, and every arithmetic result is rounded   *)
(* to Prec significant bits.  IEEE doubles are the same format with 53     *)
(* significant bits and a smallest unit of 2^-1074.                        *)
(*                                                                         *)
(* The recursion is modelled with an explicit call stack; each frame has   *)
(* the locals of one invocation and the line it is at.                     *)
(***************************************************************************)
EXTENDS Integers, Sequences, FiniteSets, TLC

\* ------------------------------------------------------------ bounds ----
FracBits == 6      \* the smallest unit is 2^-FracBits
MaxDepth == 12     \* the interpreter's recursion limit, in frames of triangle

\* ------------------------------------------------- floating point -------
RECURSIVE Pow2(_)
Pow2(n) == IF n = 0 THEN 1 ELSE 2 * Pow2(n - 1)

RECURSIVE Pow3(_)
Pow3(n) == IF n = 0 THEN 1 ELSE 3 * Pow3(n - 1)

Prec == FracBits + 8         \* significant bits of a float
One == Pow2(FracBits)        \* the float 1.0, in units

Abs(n) == IF n < 0 THEN -n ELSE n

\* spacing of the floats around magnitude n: the least power of two q with
\* n < q * 2^Prec
RECURSIVE UlpFrom(_, _)
UlpFrom(n, q) == IF n < q * Pow2(Prec) THEN q ELSE UlpFrom(n, 2 * q)

\* round n / d (n >= 0, d > 0, d a power of two) to the nearest multiple of
\* q units, ties to the even multiple
RoundTo(n, d, q) ==
  LET m  == d * q
      r  == n % m
      lo == (n - r) \div d
  IN  IF r = 0 THEN lo
      ELSE IF 2 * r < m THEN lo
      ELSE IF 2 * r > m THEN lo + q
      ELSE IF (lo \div q) % 2 = 0 THEN lo ELSE lo + q

\* the float nearest to the real number n / d
RoundMag(n, d) == RoundTo(n, d, UlpFrom(n \div d, 1))
Fl(n, d) == IF n < 0 THEN -RoundMag(-n, d) ELSE RoundMag(n, d)

FAdd(x, y) == Fl(x + y, 1)              \* x + y
FSub(x, y) == Fl(x - y, 1)              \* x - y
FHalf(x)   == Fl(x, 2)                  \* x * 0.5
FMul(x, y) == Fl(x * y, One)            \* x * y

\* math.sqrt(3): the floor of the square root in units (3 is not a square)
RECURSIVE ISqrtFrom(_, _)
ISqrtFrom(n, r) == IF (r + 1) * (r + 1) > n THEN r ELSE ISqrtFrom(n, r + 1)
Sqrt3 == ISqrtFrom(3 * One * One, One)

\* ------------------------------------------------------- fitz.Point -----
Pt(x, y) == [x |-> x, y |-> y]
PAdd(p, q) == Pt(FAdd(p.x, q.x), FAdd(p.y, q.y))
PSub(p, q) == Pt(FSub(p.x, q.x), FSub(p.y, q.y))
PHalf(p)   == Pt(FHalf(p.x), FHalf(p.y))

\* --------------------------------------------------------- triangle -----
\* a variant of the size proxy without abs
ResolutionNoAbs(a, b) == FAdd(FSub(b.x, a.x), FSub(b.y, a.y))

\* line 42: abs(b.x - a.x) + abs(b.y - a.y)
Resolution(a, b) == FAdd(Abs(FSub(b.x, a.x)), Abs(FSub(b.y, a.y)))

\* variants of the resolution check
LimitReachedHalf(a, b) == 2 * Resolution(a, b) < One
LimitReachedInclusive(a, b) == Resolution(a, b) <= One

\* line 42: resolution limit reached
LimitReached(a, b) == Resolution(a, b) < One

\* lines 45-47: a + (b - a) * 0.5
Midpoint(p, q) == PAdd(p, PHalf(PSub(q, p)))

\* the midpoint is the one real arithmetic gives: nothing was rounded away
ExactMid(p, q) ==
  LET m == Midpoint(p, q)
  IN  2 * m.x = p.x + q.x /\ 2 * m.y = p.y + q.y

\* the resolution is the one real arithmetic gives
ExactRes(a, b) == Resolution(a, b) = Abs(b.x - a.x) + Abs(b.y - a.y)

\* a variant of the count
IncrementTwice(n) == n + 2

\* line 51: triangle_count += 1
Increment(n) == n + 1

\* lines 42-56 as a function: the number of cut-outs of the call tree of
\* (a, b, c), cut off after fuel nested frames
RECURSIVE Cutouts(_, _, _, _)
Cutouts(a, b, c, fuel) ==
  IF fuel = 0 \/ LimitReached(a, b) THEN 0
  ELSE LET ab == Midpoint(a, b)
           ac == Midpoint(a, c)
           bc == Midpoint(b, c)
       IN  Increment(0) + Cutouts(a, ab, ac, fuel - 1)
                        + Cutouts(ab, b, bc, fuel - 1)
                        + Cutouts(ac, bc, c, fuel - 1)

\* nothing is rounded anywhere in the call tree of (a, b, c), and the tree
\* ends within fuel nested frames
RECURSIVE AllExact(_, _, _, _)
AllExact(a, b, c, fuel) ==
  /\ fuel > 0
  /\ ExactRes(a, b)
  /\ \/ LimitReached(a, b)
     \/ /\ ExactMid(a, b) /\ ExactMid(a, c) /\ ExactMid(b, c)
        /\ AllExact(a, Midpoint(a, b), Midpoint(a, c), fuel - 1)
        /\ AllExact(Midpoint(a, b), b, Midpoint(b, c), fuel - 1)
        /\ AllExact(Midpoint(a, c), Midpoint(b, c), c, fuel - 1)

\* line 48-49: shape.drawPolyline((ab, ac, bc)); shape.finish(fill, closePath)
Polyline(ab, ac, bc, fill, path) ==
  [points |-> <<ab, ac, bc>>, fill |-> fill, closePath |-> TRUE, node |-> path]

\* the frame of a fresh invocation, at its first line; entry and drawn
\* remember the counter passed in and the instructions drawn before the call
Frame(a, b, c, fill, count, path, drawn) ==
  [a |-> a, b |-> b, c |-> c, fill |-> fill, triangle_count |-> count,
   ab |-> a, ac |-> a, bc |-> a, pc |-> "L42", node |-> path,
   entry |-> count, drawn |-> drawn, calls |-> 0]

\* a variant of the second call, on the cut-out triangle itself
Call2Centre(f, n) == Frame(f.ab, f.ac, f.bc, f.fill, f.triangle_count, Append(f.node, 2), n)

\* a variant of the third call with its points in another order
Call3Rotated(f, n) == Frame(f.bc, f.c, f.ac, f.fill, f.triangle_count, Append(f.node, 3), n)

\* lines 53-55: the arguments of the three recursive calls
Call1Frame(f, n) == Frame(f.a, f.ab, f.ac, f.fill, f.triangle_count, Append(f.node, 1), n)
Call2Frame(f, n) == Frame(f.ab, f.b, f.bc, f.fill, f.triangle_count, Append(f.node, 2), n)
Call3Frame(f, n) == Frame(f.ac, f.bc, f.c, f.fill, f.triangle_count, Append(f.node, 3), n)

\* a variant of the call order: line 55 before line 54
AfterCallSwapped(l) == IF l = "L53" THEN "L55" ELSE IF l = "L55" THEN "L54" ELSE "L56"

\* the line a caller continues at when the call it is making returns
AfterCall(l) == IF l = "L53" THEN "L54" ELSE IF l = "L54" THEN "L55" ELSE "L56"

\* ------------------------------------------------------ host script -----
PageW == 150 * One                                     \* w
PageH == FMul(FHalf(Sqrt3), PageW)                     \* h
HostA == PAdd(Pt(0, PageH), Pt(5 * One, -5 * One))     \* page.rect.bl + (5, -5)
HostB == PAdd(Pt(PageW, PageH), Pt(-5 * One, -5 * One)) \* page.rect.br + (-5, -5)
HostX == FHalf(FSub(HostB.x, HostA.x))
HostY == FSub(HostA.y, FMul(HostX, Sqrt3))
HostC == Pt(HostX, HostY)
HostInput ==
  [a |-> HostA, b |-> HostB, c |-> HostC, fill |-> "papayawhip", triangle_count |-> 0]

\* ------------------------------------------------- bounded inputs -------
\* start triangles, in units of 1/4: coordinates k/4 for small k
Q(k) == (k * One) \div 4
T(ax, ay, bx, by, cx, cy, fill, n) ==
  [a |-> Pt(Q(ax), Q(ay)), b |-> Pt(Q(bx), Q(by)), c |-> Pt(Q(cx), Q(cy)),
   fill |-> fill, triangle_count |-> n]

\* every ordering of the three points of a start triangle
Orderings(t) ==
  { [t EXCEPT !.a = p[1], !.b = p[2], !.c = p[3]] :
      p \in { <<t.a, t.b, t.c>>, <<t.a, t.c, t.b>>, <<t.b, t.a, t.c>>,
              <<t.b, t.c, t.a>>, <<t.c, t.a, t.b>>, <<t.c, t.b, t.a>> } }

\* a magnitude at which neighbouring floats are 2.0 apart
Big == Pow2(Prec + FracBits)
BigInputs ==
  { [a |-> Pt(Big, 0), b |-> Pt(Big + 2 * One, 0), c |-> Pt(0, 0),
     fill |-> "papayawhip", triangle_count |-> 0],
    [a |-> Pt(Big + 2 * One, 0), b |-> Pt(Big, 0), c |-> Pt(0, Big),
     fill |-> "papayawhip", triangle_count |-> 0] }

SmallInputs ==
  UNION { Orderings(t) : t \in
    { T(0, 0, 0, 0, 0, 0, "papayawhip", 0),        \* three coinciding points
      T(0, 0, 2, 1, 12, 16, "papayawhip", 3),      \* a and b close, c far
      T(0, 0, 16, 0, 8, 0, "papayawhip", 0),       \* collinear
      T(0, 0, 4, 2, 0, 4, "red", 0),               \* size 1.5
      T(0, 0, 4, 0, 2, 3, "papayawhip", 5),        \* size exactly 1.0
      T(0, 0, 3, 0, 2, 3, "papayawhip", 0),        \* size 0.75
      T(12, 4, 4, 8, 0, 0, "red", 0),              \* size 3.0, b left of a
      T(0, 0, 8, 0, 4, 7, "papayawhip", 0),        \* size exactly 2.0
      T(0, 0, 8, 0, 40, -9, "papayawhip", 0),      \* same a, b, another c
      T(1, 0, 22, 1, 9, 13, "papayawhip", 0) } }   \* size 5.5

\* an everyday magnitude at which a midpoint needs one bit more than a
\* float has: 300.0 and 301.03..., whose midpoint is rounded
RoundedInputs ==
  { [a |-> Pt(300 * One, 0), b |-> Pt(301 * One + 2, 0), c |-> Pt(0, 8 * One),
     fill |-> "papayawhip", triangle_count |-> 0] }

Inputs == SmallInputs \cup BigInputs \cup RoundedInputs

\* ------------------------------------------------------------ state -----
VARIABLES
  input,           \* the start triangle, fill colour and counter of line 73
  stack,           \* the frames of triangle, the innermost last
  shape,           \* the drawing instructions the Shape has accumulated
  triangle_count,  \* the script's variable triangle_count
  pc,              \* the script: "L73", "done" or "RecursionError"
  expanded,        \* how many invocations went past the resolution check
  exact,           \* nothing computed so far was rounded
  leaves,          \* the depths at which invocations hit the resolution limit
  last             \* the invocation that returned last

vars == <<input, stack, shape, triangle_count, pc, expanded, exact, leaves, last>>

NoReturn == [node |-> <<0>>, a |-> Pt(0, 0), b |-> Pt(0, 0), c |-> Pt(0, 0),
             entry |-> 0, result |-> 0, terminal |-> FALSE, drawn |-> 0, calls |-> 0]

InitWith(t) ==
  /\ input = t
  /\ stack = <<>>
  /\ shape = <<>>
  /\ triangle_count = t.triangle_count
  /\ pc = "L73"
  /\ expanded = 0
  /\ exact = TRUE
  /\ leaves = {}
  /\ last = NoReturn

Init == \E t \in Inputs : InitWith(t)
HostInit == InitWith(HostInput)

Top == stack[Len(stack)]
SetTop(f) == [stack EXCEPT ![Len(stack)] = f]

\* line 73: the script calls triangle(shape, a, b, c, fill, triangle_count)
Start ==
  /\ pc = "L73" /\ stack = <<>>
  /\ stack' = <<Frame(input.a, input.b, input.c, input.fill, triangle_count, <<>>, Len(shape))>>
  /\ UNCHANGED <<input, shape, triangle_count, pc, expanded, exact, leaves, last>>

\* the value v comes back from the innermost invocation: the caller assigns
\* it to its triangle_count (lines 53-55, 73) and goes on
ReturnTo(v) ==
  IF Len(stack) = 1
    THEN /\ stack' = <<>>
         /\ triangle_count' = v
         /\ pc' = "done"
    ELSE /\ LET caller == stack[Len(stack) - 1]
            IN  stack' = [SubSeq(stack, 1, Len(stack) - 1) EXCEPT ![Len(stack) - 1] =
                            [caller EXCEPT !.triangle_count = v,
                                           !.pc = AfterCall(caller.pc)]]
         /\ UNCHANGED <<triangle_count, pc>>

\* what is remembered of an invocation that returned: its arguments, the
\* counter it got and gave back, the instructions drawn during it
Returned(f, v, term) ==
  [node |-> f.node, a |-> f.a, b |-> f.b, c |-> f.c, entry |-> f.entry,
   result |-> v, terminal |-> term, drawn |-> Len(shape) - f.drawn,
   calls |-> f.calls]

\* lines 42-43: resolution limit reached, return triangle_count
Terminal ==
  /\ pc = "L73" /\ stack # <<>>
  /\ Top.pc = "L42"
  /\ LimitReached(Top.a, Top.b)
  /\ ReturnTo(Top.triangle_count)
  /\ last' = Returned(Top, Top.triangle_count, TRUE)
  /\ exact' = (exact /\ ExactRes(Top.a, Top.b))
  /\ leaves' = leaves \cup {Len(stack)}
  /\ UNCHANGED <<input, shape, expanded>>

\* lines 45-51: the midpoints, the cut-out triangle, the count
Expand ==
  /\ pc = "L73" /\ stack # <<>>
  /\ Top.pc = "L42"
  /\ ~LimitReached(Top.a, Top.b)
  /\ LET f  == Top
         ab == Midpoint(f.a, f.b)
         ac == Midpoint(f.a, f.c)
         bc == Midpoint(f.b, f.c)
     IN  /\ shape' = Append(shape, Polyline(ab, ac, bc, f.fill, f.node))
         /\ stack' = SetTop([f EXCEPT !.ab = ab, !.ac = ac, !.bc = bc,
                                      !.triangle_count = Increment(f.triangle_count),
                                      !.pc = "L53"])
         /\ exact' = (exact /\ ExactRes(f.a, f.b) /\ ExactMid(f.a, f.b)
                            /\ ExactMid(f.a, f.c) /\ ExactMid(f.b, f.c))
  /\ expanded' = expanded + 1
  /\ UNCHANGED <<input, triangle_count, pc, leaves, last>>

\* a recursive call: a new frame, or RecursionError at the recursion limit,
\* which nothing catches
Call(l, child) ==
  /\ pc = "L73" /\ stack # <<>>
  /\ Top.pc = l
  /\ IF Len(stack) < MaxDepth
       THEN /\ stack' = Append(SetTop([Top EXCEPT !.calls = @ + 1]), child)
            /\ pc' = pc
       ELSE /\ stack' = stack
            /\ pc' = "RecursionError"
  /\ UNCHANGED <<input, shape, triangle_count, expanded, exact, leaves, last>>

Call1 == Call("L53", Call1Frame(Top, Len(shape)))     \* line 53
Call2 == Call("L54", Call2Frame(Top, Len(shape)))     \* line 54
Call3 == Call("L55", Call3Frame(Top, Len(shape)))     \* line 55

\* line 56: return triangle_count
Return ==
  /\ pc = "L73" /\ stack # <<>>
  /\ Top.pc = "L56"
  /\ ReturnTo(Top.triangle_count)
  /\ last' = Returned(Top, Top.triangle_count, FALSE)
  /\ UNCHANGED <<input, shape, expanded, exact, leaves>>

Next == Start \/ Terminal \/ Expand \/ Call1 \/ Call2 \/ Call3 \/ Return

Spec == Init /\ [][Next]_vars
HostSpec == HostInit /\ [][Next]_vars

\* =========================================================== claims =====
Size == Resolution(input.a, input.b)          \* the L1 size of the start triangle
Emitted == triangle_count - input.triangle_count

\* the instructions drawn for the invocation at node n
DrawnFor(n) == { k \in DOMAIN shape : shape[k].node = n }

\* ---- C1 ----------------------------------------------------------------
\* C1: every call of triangle on a finite start triangle terminates and
\* returns a counter: the script never dies of unbounded recursion.
C1_Terminates == pc # "RecursionError"

\* ---- C2 ----------------------------------------------------------------
\* C2: at every point of the call tree and at the final return the counter
\* is the input counter plus the number of non-terminal invocations entered
\* so far, which is the number of drawing instructions emitted so far; no
\* invocation ever holds or returns less than it was given.
C2_CounterCounts ==
  /\ expanded = Len(shape)
  /\ stack # <<>> => Top.triangle_count = input.triangle_count + expanded
  /\ pc = "done" => triangle_count = input.triangle_count + expanded
  /\ \A i \in DOMAIN stack : stack[i].triangle_count >= stack[i].entry
  /\ last.result >= last.entry

C2_Witness ==
  /\ pc = "done"
  /\ input.triangle_count = 3
  /\ triangle_count = 16
  /\ Len(shape) = 13

\* ---- C3 ----------------------------------------------------------------
\* C3: an invocation whose L1 proxy |b.x - a.x| + |b.y - a.y| is below 1.0
\* is terminal: it stays at its first line, draws nothing, calls nothing
\* and returns the counter it was given, whatever c is.
C3_BelowLimitIsTerminal ==
  /\ \A i \in DOMAIN stack :
       Resolution(stack[i].a, stack[i].b) < One =>
         /\ i = Len(stack)
         /\ stack[i].pc = "L42"
         /\ stack[i].triangle_count = stack[i].entry
         /\ stack[i].calls = 0
         /\ Len(shape) = stack[i].drawn
  /\ (last # NoReturn /\ Resolution(last.a, last.b) < One) =>
       /\ last.terminal
       /\ last.result = last.entry
       /\ last.drawn = 0
       /\ last.calls = 0
  /\ (pc = "done" /\ Size < One) =>
       /\ triangle_count = input.triangle_count
       /\ shape = <<>>
       /\ expanded = 0

C3_Witness ==
  /\ pc = "done"
  /\ Size < One
  /\ input.a # input.b
  /\ Resolution(input.a, input.c) >= One
  /\ input.triangle_count = 3
  /\ last.node = <<>>

\* ---- C4 ----------------------------------------------------------------
\* C4: an invocation past the resolution check has emitted exactly one
\* instruction, the closed path through (ab, ac, bc) = (midpoint(a,b),
\* midpoint(a,c), midpoint(b,c)) filled with its fill colour; the calls it
\* makes are, in turn, on (a, ab, ac), (ab, b, bc) and (ac, bc, c), three
\* in all, and an invocation at the resolution check has emitted nothing.
CallsBefore(l) ==
  IF l = "L53" THEN 0 ELSE IF l = "L54" THEN 1 ELSE IF l = "L55" THEN 2 ELSE 3

CornerAt(f) ==
  IF f.pc = "L53" THEN <<f.a, f.ab, f.ac>>
  ELSE IF f.pc = "L54" THEN <<f.ab, f.b, f.bc>>
  ELSE IF f.pc = "L55" THEN <<f.ac, f.bc, f.c>>
  ELSE <<>>

C4_CutOutAndCorners ==
  /\ \A i \in DOMAIN stack :
       LET f == stack[i]
           calling == IF i < Len(stack) THEN 1 ELSE 0
       IN  /\ f.fill = input.fill
           /\ f.pc = "L42" => (DrawnFor(f.node) = {} /\ f.calls = 0 /\ calling = 0)
           /\ f.pc # "L42" =>
                /\ f.ab = Midpoint(f.a, f.b)
                /\ f.ac = Midpoint(f.a, f.c)
                /\ f.bc = Midpoint(f.b, f.c)
                /\ DrawnFor(f.node) = {f.drawn + 1}
                /\ shape[f.drawn + 1].points = <<f.ab, f.ac, f.bc>>
                /\ shape[f.drawn + 1].fill = f.fill
                /\ shape[f.drawn + 1].closePath
                /\ f.calls = CallsBefore(f.pc) + calling
           /\ calling = 1 =>
                <<stack[i + 1].a, stack[i + 1].b, stack[i + 1].c>> = CornerAt(f)
  /\ (last # NoReturn /\ ~last.terminal) => last.calls = 3

C4_Witness ==
  /\ Len(stack) = 3
  /\ stack[1].pc = "L55"
  /\ stack[2].pc = "L54"
  /\ stack[3].pc = "L53"
  /\ input.fill = "red"
  /\ Len(shape) >= 4

\* ---- C5 ----------------------------------------------------------------
\* d = floor(log2(s / 1.0)) for s >= 1.0
RECURSIVE FloorLog2(_)
FloorLog2(s) == IF s < 2 * One THEN 0 ELSE 1 + FloorLog2(s \div 2)

\* C5 as claimed: for a start triangle of L1 size s >= 1.0 the number of
\* cut-outs of the whole call tree is exactly (3^d - 1) / 2, d = floor(log2(s)).
C5_Original ==
  (pc = "done" /\ Size >= One) =>
    Emitted = (Pow3(FloorLog2(Size)) - 1) \div 2

\* C5 amended: for a start triangle of L1 size s >= 1.0, when nothing is
\* rounded during the recursion, the number of cut-outs of the whole call
\* tree is exactly (3^(d+1) - 1) / 2, d = floor(log2(s)).
C5_Amended ==
  (pc = "done" /\ exact /\ Size >= One) =>
    Emitted = (Pow3(FloorLog2(Size) + 1) - 1) \div 2

C5_Witness ==
  /\ pc = "done"
  /\ exact
  /\ Size = 2 * One
  /\ Emitted = 4

\* ---- C6 ----------------------------------------------------------------
\* p comes before q in the pre-order of the call tree: p is an ancestor of
\* q, or p lies in an earlier branch than q where they part
PreOrderLess(p, q) ==
  \/ Len(p) < Len(q) /\ SubSeq(q, 1, Len(p)) = p
  \/ \E k \in 1..Len(p) :
       /\ k <= Len(q)
       /\ SubSeq(p, 1, k - 1) = SubSeq(q, 1, k - 1)
       /\ p[k] < q[k]

\* C6: the instructions are emitted in the pre-order of the call tree, with
\* the branch (a, ab, ac) before (ab, b, bc) before (ac, bc, c), and the
\* counter goes through the calls in that order: every invocation is
\* handed the number of cut-outs emitted before it.
C6_PreOrder ==
  /\ \A i, j \in DOMAIN shape :
       i < j => PreOrderLess(shape[i].node, shape[j].node)
  /\ \A i \in DOMAIN stack :
       /\ stack[i].entry = input.triangle_count + stack[i].drawn
       /\ i < Len(stack) => stack[i + 1].node = Append(stack[i].node, CallsBefore(stack[i].pc) + 1)
       /\ i < Len(stack) => CornerAt(stack[i]) = <<stack[i + 1].a, stack[i + 1].b, stack[i + 1].c>>

C6_Witness ==
  /\ pc = "done"
  /\ Len(shape) = 13
  /\ shape[1].node = <<>>
  /\ shape[2].node = <<1>>
  /\ shape[5].node = <<1, 3>>
  /\ shape[6].node = <<2>>
  /\ shape[13].node = <<3, 3>>

\* ---- C8 ----------------------------------------------------------------
Swapped == [input EXCEPT !.a = input.b, !.b = input.a]

Sq(n) == n * n
Dist2(p, q) == Sq(q.x - p.x) + Sq(q.y - p.y)

\* C9: the start triangle of the script is equal-sided: c lies above the
\* middle of the base, as far from a as from b, at a height of sqrt(3)/2
\* times the base (to within the rounding of the height).
C9_EqualSided ==
  /\ 2 * input.c.x = input.a.x + input.b.x
  /\ Dist2(input.a, input.c) = Dist2(input.b, input.c)
  /\ Abs((input.a.y - input.c.y)
           - FMul(FHalf(Sqrt3), Abs(input.b.x - input.a.x))) <= One \div 8

\* ---- C10 ---------------------------------------------------------------
\* C10 as claimed: every recursive call is on a triangle whose L1 proxy is
\* exactly half its parent's; all terminal invocations of a run are at one
\* depth, and the count is the same whatever point stands in for c.
C10_Original ==
  /\ \A i \in DOMAIN stack :
       i < Len(stack) =>
         2 * Resolution(stack[i + 1].a, stack[i + 1].b)
           = Resolution(stack[i].a, stack[i].b)
  /\ Cardinality(leaves) <= 1
  /\ pc = "done" =>
       \A t \in Inputs : Cutouts(input.a, input.b, t.c, MaxDepth) = Emitted

ExactFrame(f) ==
  /\ ExactRes(f.a, f.b)
  /\ f.pc # "L42" => (ExactMid(f.a, f.b) /\ ExactMid(f.a, f.c) /\ ExactMid(f.b, f.c))

\* C10 amended: a recursive call made with midpoints that were not rounded
\* is on a triangle whose L1 proxy is exactly half its parent's; in a run
\* in which nothing is rounded all terminal invocations are at one depth,
\* and the count is the same for every c for which nothing is rounded.
C10_Amended ==
  /\ \A i \in DOMAIN stack :
       (i < Len(stack) /\ ExactFrame(stack[i]) /\ ExactFrame(stack[i + 1])) =>
         2 * Resolution(stack[i + 1].a, stack[i + 1].b)
           = Resolution(stack[i].a, stack[i].b)
  /\ exact => Cardinality(leaves) <= 1
  /\ (pc = "done" /\ exact) =>
       \A t \in Inputs :
         AllExact(input.a, input.b, t.c, MaxDepth) =>
           Cutouts(input.a, input.b, t.c, MaxDepth) = Emitted

C10_Witness ==
  /\ pc = "done"
  /\ exact
  /\ leaves = {4}
  /\ Emitted = 13
  /\ \E t \in Inputs :
       /\ t.c # input.c
       /\ t.c # input.a
       /\ AllExact(input.a, input.b, t.c, MaxDepth)

====
